---- MODULE Spec2Model ----
(***************************************************************************)
(* Leadership chatbot backend: the signup / login / token gate flow of     *)
(* app/routes/auth.py and app/__init__.py, and the chat ledger of          *)
(* app/routes/chat.py, app/models/chat_history.py and                      *)
(* app/services/llama_service.py.                                          *)
(*                                                                         *)
(* Text that the code processes (usernames, emails, passwords, questions,  *)
(* token subjects) is a sequence of one-character strings, so that         *)
(* sanitize_input, the validators and str()/int() are computed and not     *)
(* assumed.  Text the code only stores and returns (provider answers,      *)
(* error messages) is a TLA+ string.                                       *)
(***************************************************************************)
EXTENDS Integers, Sequences, FiniteSets, TLC

VARIABLES users, chats, now, ticks, eras, wallet, signups, pc, req, resp, loc,
          llama

vars == <<users, chats, now, ticks, eras, wallet, signups, pc, req, resp, loc,
          llama>>

----------------------------------------------------------------------------
(* Bounds of the model.                                                    *)

\* users that signup may store
MaxUsers == 2
\* entries that ask-question may add to the ledger
MaxChats == 2
\* seconds the clock may advance one by one
MaxTicks == 1
\* token lifetimes the clock may advance by
MaxEras == 2
\* entries of earlier requests in the ledger of SpecLedger
Backlog == 10
\* largest user id whose str()/int() round trip is computed
MaxId == 120

Clients == {1, 2}

----------------------------------------------------------------------------
(* Characters and the regular-expression classes \w, \s and \b of re.      *)

UpperCase ==
    <<"A","B","C","D","E","F","G","H","I","J","K","L","M",
      "N","O","P","Q","R","S","T","U","V","W","X","Y","Z">>

LowerCase ==
    <<"a","b","c","d","e","f","g","h","i","j","k","l","m",
      "n","o","p","q","r","s","t","u","v","w","x","y","z">>

DigitChars == <<"0","1","2","3","4","5","6","7","8","9">>

Range(s) == {s[i] : i \in 1..Len(s)}

UpperSet == Range(UpperCase)
LowerSet == Range(LowerCase)
DigitSet == Range(DigitChars)
WordSet == UpperSet \cup LowerSet \cup DigitSet \cup {"_"}

IsUpper(c) == c \in UpperSet
IsLower(c) == c \in LowerSet
IsDigit(c) == c \in DigitSet
IsWord(c) == c \in WordSet
IsSpace(c) == c \in {" ", "\t", "\n"}

ToLower(c) ==
    IF IsUpper(c)
    THEN LowerCase[CHOOSE i \in 1..Len(UpperCase) : UpperCase[i] = c]
    ELSE c

\* p occurs in s starting at index i
StartsAt(s, i, p) ==
    /\ i >= 1
    /\ i + Len(p) - 1 <= Len(s)
    /\ \A k \in 1..Len(p) : s[i + k - 1] = p[k]

\* p, in lower case, occurs in s at index i whatever the case of s (IGNORECASE)
StartsAtNoCase(s, i, p) ==
    /\ i >= 1
    /\ i + Len(p) - 1 <= Len(s)
    /\ \A k \in 1..Len(p) : ToLower(s[i + k - 1]) = p[k]

\* \b holds between s[i-1] and s[i]
BoundaryAt(s, i) ==
    LET l == i > 1 /\ i - 1 <= Len(s) /\ IsWord(s[i - 1])
        r == i >= 1 /\ i <= Len(s) /\ IsWord(s[i])
    IN  l # r

\* first index >= i that holds no word character (Len(s)+1 when none)
RECURSIVE WordRunEnd(_, _)
WordRunEnd(s, i) ==
    IF i <= Len(s) /\ IsWord(s[i]) THEN WordRunEnd(s, i + 1) ELSE i

\* first index >= i that holds no whitespace (Len(s)+1 when none)
RECURSIVE SpaceRunEnd(_, _)
SpaceRunEnd(s, i) ==
    IF i <= Len(s) /\ IsSpace(s[i]) THEN SpaceRunEnd(s, i + 1) ELSE i

\* least index >= i where p occurs in s, 0 when there is none
RECURSIVE FirstAt(_, _, _)
FirstAt(s, i, p) ==
    IF i + Len(p) - 1 > Len(s) THEN 0
    ELSE IF StartsAt(s, i, p) THEN i
    ELSE FirstAt(s, i + 1, p)

----------------------------------------------------------------------------
(* app/utils/security.py: sanitize_input.  Each XxxEnd(s, i) is the index  *)
(* just after the match of the pattern that starts at i, or 0 when the     *)
(* pattern does not match at i; each RemoveXxx is re.sub(pattern, '', s).  *)

ScriptOpen == <<"<","s","c","r","i","p","t">>
ScriptClose == <<"<","/","s","c","r","i","p","t",">">>

\* <script.*?>.*?</script> with DOTALL
ScriptEnd(s, i) ==
    IF ~StartsAt(s, i, ScriptOpen) THEN 0
    ELSE LET j == FirstAt(s, i + Len(ScriptOpen), <<">">>)
             k == IF j = 0 THEN 0 ELSE FirstAt(s, j + 1, ScriptClose)
         IN  IF k = 0 THEN 0 ELSE k + Len(ScriptClose)

RECURSIVE RemoveScriptsFrom(_, _)
RemoveScriptsFrom(s, i) ==
    IF i > Len(s) THEN <<>>
    ELSE LET e == ScriptEnd(s, i)
         IN  IF e # 0 THEN RemoveScriptsFrom(s, e)
             ELSE <<s[i]>> \o RemoveScriptsFrom(s, i + 1)

\* <.*?> where . does not match a newline
TagEnd(s, i) ==
    IF s[i] # "<" THEN 0
    ELSE LET j == FirstAt(s, i + 1, <<">">>)
         IN  IF j # 0 /\ \A k \in (i + 1)..(j - 1) : s[k] # "\n"
             THEN j + 1 ELSE 0

RECURSIVE RemoveTagsFrom(_, _)
RemoveTagsFrom(s, i) ==
    IF i > Len(s) THEN <<>>
    ELSE LET e == TagEnd(s, i)
         IN  IF e # 0 THEN RemoveTagsFrom(s, e)
             ELSE <<s[i]>> \o RemoveTagsFrom(s, i + 1)

SqlKeywords ==
    { <<"a","l","t","e","r">>, <<"c","r","e","a","t","e">>,
      <<"d","e","l","e","t","e">>, <<"d","r","o","p">>,
      <<"e","x","e","c">>, <<"e","x","e","c","u","t","e">>,
      <<"i","n","s","e","r","t">>, <<"s","e","l","e","c","t">>,
      <<"u","p","d","a","t","e">> }

\* \b(ALTER|CREATE|DELETE|DROP|EXEC(UTE)?|INSERT|SELECT|UPDATE)\b, IGNORECASE
KeywordEnd(s, i) ==
    LET hits == {kw \in SqlKeywords :
                    StartsAtNoCase(s, i, kw) /\ BoundaryAt(s, i + Len(kw))}
    IN  IF ~BoundaryAt(s, i) \/ hits = {} THEN 0
        ELSE i + Len(CHOOSE kw \in hits : TRUE)

RECURSIVE RemoveKeywordsFrom(_, _)
RemoveKeywordsFrom(s, i) ==
    IF i > Len(s) THEN <<>>
    ELSE LET e == KeywordEnd(s, i)
         IN  IF e # 0 THEN RemoveKeywordsFrom(s, e)
             ELSE <<s[i]>> \o RemoveKeywordsFrom(s, i + 1)

\* (\b(OR|AND)\b\s+\w+\s*=\s*\w+\s*($|\b)), IGNORECASE
ConditionEnd(s, i) ==
    LET k == IF BoundaryAt(s, i) /\ StartsAtNoCase(s, i, <<"o","r">>)
                /\ BoundaryAt(s, i + 2) THEN i + 2
             ELSE IF BoundaryAt(s, i) /\ StartsAtNoCase(s, i, <<"a","n","d">>)
                  /\ BoundaryAt(s, i + 3) THEN i + 3
             ELSE 0
        a == SpaceRunEnd(s, k)
        b == WordRunEnd(s, a)
        c == SpaceRunEnd(s, b)
        d == SpaceRunEnd(s, c + 1)
        e == WordRunEnd(s, d)
        f == SpaceRunEnd(s, e)
    IN  IF k = 0 \/ a = k \/ b = a THEN 0
        ELSE IF c > Len(s) \/ s[c] # "=" THEN 0
        ELSE IF e = d THEN 0
        ELSE IF f = Len(s) + 1 \/ IsWord(s[f]) THEN f
        ELSE e

RECURSIVE RemoveConditionsFrom(_, _)
RemoveConditionsFrom(s, i) ==
    IF i > Len(s) THEN <<>>
    ELSE LET e == ConditionEnd(s, i)
         IN  IF e # 0 THEN RemoveConditionsFrom(s, e)
             ELSE <<s[i]>> \o RemoveConditionsFrom(s, i + 1)

sanitize_input(input_str) ==
    IF input_str = <<>> THEN input_str
    ELSE LET s1 == RemoveScriptsFrom(input_str, 1)
             s2 == RemoveTagsFrom(s1, 1)
             s3 == RemoveKeywordsFrom(s2, 1)
         IN  RemoveConditionsFrom(s3, 1)

----------------------------------------------------------------------------
(* app/utils/security.py: validate_password; app/routes/auth.py:           *)
(* UserSchema; the email validators.                                       *)

MinUsernameLen == 3
MaxUsernameLen == 50
MinPasswordLen == 8

SpecialChars ==
    {"!","@","#","$","%","^","&","*","(",")",",",".","?","\"",":",
     "{","}","|","<",">"}

\* (is_valid, message)
validate_password(password) ==
    IF Len(password) < MinPasswordLen
    THEN <<FALSE, "Password must be at least 8 characters long.">>
    ELSE IF ~\E i \in 1..Len(password) : IsDigit(password[i])
    THEN <<FALSE, "Password must contain at least one digit.">>
    ELSE IF ~\E i \in 1..Len(password) : IsUpper(password[i])
    THEN <<FALSE, "Password must contain at least one uppercase letter.">>
    ELSE IF ~\E i \in 1..Len(password) : IsLower(password[i])
    THEN <<FALSE, "Password must contain at least one lowercase letter.">>
    ELSE IF ~\E i \in 1..Len(password) : password[i] \in SpecialChars
    THEN <<FALSE, "Password must contain at least one special character.">>
    ELSE <<TRUE, "Password is valid.">>

\* The syntax both email validators accept, reduced to: one "@", a
\* non-empty local part, and a domain of non-empty labels with a dot.
EmailSyntaxOK(email) ==
    LET ats == {i \in 1..Len(email) : email[i] = "@"}
        at == CHOOSE i \in ats : TRUE
        dots == {i \in (at + 1)..Len(email) : email[i] = "."}
    IN  /\ Cardinality(ats) = 1
        /\ at > 1
        /\ dots # {}
        /\ \A i \in dots : i > at + 1 /\ i < Len(email) /\ (i + 1) \notin dots
        /\ \A i \in 1..Len(email) : ~IsSpace(email[i])

\* email_validator's normalized form: the domain in lower case
NormalizedEmail(email) ==
    LET at == CHOOSE i \in 1..Len(email) : email[i] = "@"
    IN  [i \in 1..Len(email) |-> IF i > at THEN ToLower(email[i]) ELSE email[i]]

\* (is_valid, the normalized address or the error message)
validate_email(email) ==
    IF EmailSyntaxOK(email) THEN <<TRUE, NormalizedEmail(email)>>
    ELSE <<FALSE, <<"i","n","v","a","l","i","d">> >>

\* user_schema.load: the fields that fail, {} when the payload loads
UserSchemaErrors(data) ==
    {f \in {"username"} :
        Len(data.username) < MinUsernameLen \/ Len(data.username) > MaxUsernameLen}
    \cup {f \in {"email"} : ~EmailSyntaxOK(data.email)}
    \cup {f \in {"password"} : Len(data.password) < MinPasswordLen}

----------------------------------------------------------------------------
(* str() and int() of a user id.                                           *)

RECURSIVE IntToStr(_)
IntToStr(n) ==
    IF n < 10 THEN <<DigitChars[n + 1]>>
    ELSE IntToStr(n \div 10) \o <<DigitChars[(n % 10) + 1]>>

DigitValue(c) == (CHOOSE i \in 1..10 : DigitChars[i] = c) - 1

RECURSIVE DigitsToInt(_)
DigitsToInt(s) ==
    IF s = <<>> THEN 0
    ELSE 10 * DigitsToInt(SubSeq(s, 1, Len(s) - 1)) + DigitValue(s[Len(s)])

ValueError == -1

\* int(identity): the number, or ValueError
StrToInt(s) ==
    IF s # <<>> /\ \A i \in 1..Len(s) : IsDigit(s[i]) THEN DigitsToInt(s)
    ELSE ValueError

----------------------------------------------------------------------------
(* The users table (app/models/user.py): rows in id order, ids 1, 2, ...   *)

PasswordHash(password) == <<"$2b$">> \o password

NewUser(id, username, email, password) ==
    [id |-> id, username |-> username, email |-> email,
     password_hash |-> PasswordHash(password)]

check_password(user, password) == user.password_hash = PasswordHash(password)

user_to_dict(user) ==
    [id |-> user.id, username |-> user.username, email |-> user.email]

\* a users table whose only unique constraint is the one on users.username
UniqueOK_UsernameOnly(table, username, email) ==
    \A i \in 1..Len(table) : table[i].username # username

\* the unique constraints on users.username and users.email hold for a new row
UniqueOK(table, username, email) ==
    \A i \in 1..Len(table) :
        table[i].username # username /\ table[i].email # email

\* User.query.filter_by(username=...): the ids of the matching rows
UsersByUsername(table, username) ==
    {i \in 1..Len(table) : table[i].username = username}

UsersByEmail(table, email) ==
    {i \in 1..Len(table) : table[i].email = email}

\* User.query.get(id) is not None
UserExists(table, id) == id \in 1..Len(table)

----------------------------------------------------------------------------
(* Tokens (flask_jwt_extended): kind, subject, expiry, and whether the     *)
(* signature verifies under JWT_SECRET_KEY.  Time is in seconds.           *)

AccessLifetime == 3600
RefreshLifetime == 2592000

MissingToken == [kind |-> "none", sub |-> <<>>, exp |-> 0, sig |-> "none"]

\* a Python value that is an int or a str
PyInt(n) == [t |-> "int", v |-> n]
PyStr(s) == [t |-> "str", v |-> s]

\* a loader that writes the identity with a prefix instead of str(user)
user_identity_lookup_Prefixed(user) ==
    <<"u">> \o (IF user.t = "int" THEN IntToStr(user.v) ELSE user.v)

\* str(user)
user_identity_lookup(user) == IF user.t = "int" THEN IntToStr(user.v) ELSE user.v

create_access_token(identity, clock) ==
    [kind |-> "access", sub |-> user_identity_lookup(identity),
     exp |-> clock + AccessLifetime, sig |-> "ok"]

create_refresh_token(identity, clock) ==
    [kind |-> "refresh", sub |-> user_identity_lookup(identity),
     exp |-> clock + RefreshLifetime, sig |-> "ok"]

\* a copy of the token whose signature does not verify
Tampered(tok) == [tok EXCEPT !.sig = "bad"]

\* user_lookup_callback: the id of the user the subject names, 0 for None
user_lookup_callback(table, sub) ==
    LET id == StrToInt(sub)
    IN  IF id # ValueError /\ UserExists(table, id) THEN id ELSE 0

Response(status, error, body) == [status |-> status, error |-> error, body |-> body]

NoBody == [kind |-> "none"]
NoResponse == Response(0, "", NoBody)

expired_token_callback == Response(401, "Token has expired", NoBody)
invalid_token_callback == Response(401, "Invalid token", NoBody)
missing_token_callback == Response(401, "Authorization required", NoBody)
user_lookup_error == Response(401, "Error loading the user", NoBody)

\* a gate for which a token is still good at the second of its expiry
jwt_required_LateExpiry(tok, refresh, table, clock) ==
    IF tok.kind = "none" THEN missing_token_callback
    ELSE IF tok.sig # "ok" THEN invalid_token_callback
    ELSE IF tok.exp < clock THEN expired_token_callback
    ELSE IF (tok.kind = "refresh") # refresh THEN invalid_token_callback
    ELSE IF user_lookup_callback(table, tok.sub) = 0 THEN user_lookup_error
    ELSE NoResponse

\* a gate that does not read the expiry of the token
jwt_required_NoExpiry(tok, refresh, table, clock) ==
    IF tok.kind = "none" THEN missing_token_callback
    ELSE IF tok.sig # "ok" THEN invalid_token_callback
    ELSE IF (tok.kind = "refresh") # refresh THEN invalid_token_callback
    ELSE IF user_lookup_callback(table, tok.sub) = 0 THEN user_lookup_error
    ELSE NoResponse

\* a gate that does not read the kind of the token
jwt_required_AnyKind(tok, refresh, table, clock) ==
    IF tok.kind = "none" THEN missing_token_callback
    ELSE IF tok.sig # "ok" THEN invalid_token_callback
    ELSE IF tok.exp <= clock THEN expired_token_callback
    ELSE IF user_lookup_callback(table, tok.sub) = 0 THEN user_lookup_error
    ELSE NoResponse

\* @jwt_required(refresh=...): the 401 response that short-circuits the
\* request, or NoResponse when the handler runs
jwt_required(tok, refresh, table, clock) ==
    IF tok.kind = "none" THEN missing_token_callback
    ELSE IF tok.sig # "ok" THEN invalid_token_callback
    ELSE IF tok.exp <= clock THEN expired_token_callback
    ELSE IF (tok.kind = "refresh") # refresh THEN invalid_token_callback
    ELSE IF user_lookup_callback(table, tok.sub) = 0 THEN user_lookup_error
    ELSE NoResponse

\* get_jwt_identity()
get_jwt_identity(tok) == tok.sub

----------------------------------------------------------------------------
(* Requests.  A client sends one request at a time; two clients run        *)
(* concurrently, and a handler that queries the database more than once    *)
(* can be interleaved with the other client's between its queries.         *)

Usernames ==
    { <<"b","o","b">>, <<"<","b",">","b","o","b">>,
      <<"<","b",">","a","b">>, <<"a","b">> }

Emails ==
    { <<"a","@","x",".","i","o">>, <<"b","@","x",".","i","o">>, <<"a","x">> }

GoodPassword == <<"A","a","1","!","a","a","a","a">>
WeakPassword == <<"a","a","a","a","a","a","a","a">>
Passwords == {GoodPassword, WeakPassword}

NoRequest ==
    [op |-> "none", token |-> MissingToken, fields |-> {},
     username |-> <<>>, email |-> <<>>, password |-> <<>>, question |-> <<>>,
     limit |-> 0, offset |-> 0, chat_id |-> 0]

NoLocals == [kind |-> "none"]

EmptyWallet == [access |-> MissingToken, refresh |-> MissingToken]

\* LlamaService._instance = None, and no object constructed yet
NoService == [instance |-> 0, made |-> 0]

\* the bearer tokens client c can send: none, the ones it holds, a forged one
TokenChoices(c) ==
    {MissingToken, wallet[c].access, wallet[c].refresh, Tampered(wallet[c].access)}

SignupStages == {"signup_email", "signup_commit"}

\* the request ends: the response goes out and the client is idle again
Finish(c, r) ==
    /\ resp' = [resp EXCEPT ![c] = r]
    /\ pc' = [pc EXCEPT ![c] = "idle"]
    /\ loc' = [loc EXCEPT ![c] = NoLocals]

\* the request goes on to its next database operation
Continue(c, stage, locals) ==
    /\ resp' = [resp EXCEPT ![c] = NoResponse]
    /\ pc' = [pc EXCEPT ![c] = stage]
    /\ loc' = [loc EXCEPT ![c] = locals]

----------------------------------------------------------------------------
(* app/routes/auth.py: signup                                              *)

\* lines 83-100: the 400 response, or NoResponse when the payload is valid
signup_validate(data) ==
    IF UserSchemaErrors(data) # {}
    THEN Response(400, "Validation error",
                  [kind |-> "fields", fields |-> UserSchemaErrors(data)])
    ELSE IF ~validate_email(data.email)[1]
    THEN Response(400, "Invalid email", NoBody)
    ELSE IF ~validate_password(data.password)[1]
    THEN Response(400, validate_password(data.password)[2], NoBody)
    ELSE NoResponse

\* a signup that runs the email query before the username query
SignupBegin_EmailFirst(c) ==
    /\ pc[c] = "idle"
    /\ Len(users) + Cardinality({d \in Clients : pc[d] \in SignupStages}) < MaxUsers
    /\ \E un \in Usernames, em \in Emails, pw \in Passwords :
        LET data == [NoRequest EXCEPT !.op = "signup",
                        !.fields = {"username", "email", "password"},
                        !.username = un, !.email = em, !.password = pw]
            bad == signup_validate(data)
            username == sanitize_input(data.username)
        IN  /\ req' = [req EXCEPT ![c] = data]
            /\ IF bad # NoResponse THEN Finish(c, bad)
               ELSE IF UsersByEmail(users, data.email) # {}
               THEN Finish(c, Response(409, "Email already exists", NoBody))
               ELSE IF UsersByUsername(users, username) # {}
               THEN Finish(c, Response(409, "Username already exists", NoBody))
               ELSE Continue(c, "signup_email",
                        [kind |-> "signup", username |-> username,
                         email |-> data.email, password |-> data.password])
    /\ UNCHANGED <<llama, users, chats, now, ticks, eras, wallet, signups>>

\* lines 80-104: validation, then the username query, for a request whose
\* email is one of the given addresses
SignupBeginFrom(c, emails) ==
    /\ pc[c] = "idle"
    /\ Len(users) + Cardinality({d \in Clients : pc[d] \in SignupStages}) < MaxUsers
    /\ \E un \in Usernames, em \in emails, pw \in Passwords :
        LET data == [NoRequest EXCEPT !.op = "signup",
                        !.fields = {"username", "email", "password"},
                        !.username = un, !.email = em, !.password = pw]
            bad == signup_validate(data)
            username == sanitize_input(data.username)
        IN  /\ req' = [req EXCEPT ![c] = data]
            /\ IF bad # NoResponse THEN Finish(c, bad)
               ELSE IF UsersByUsername(users, username) # {}
               THEN Finish(c, Response(409, "Username already exists", NoBody))
               ELSE Continue(c, "signup_email",
                        [kind |-> "signup", username |-> username,
                         email |-> data.email, password |-> data.password])
    /\ UNCHANGED <<llama, users, chats, now, ticks, eras, wallet, signups>>

SignupBegin(c) == SignupBeginFrom(c, Emails)

\* lines 106-107: the email query
SignupCheckEmail(c) ==
    /\ pc[c] = "signup_email"
    /\ IF UsersByEmail(users, loc[c].email) # {}
       THEN Finish(c, Response(409, "Email already exists", NoBody))
       ELSE Continue(c, "signup_commit", loc[c])
    /\ UNCHANGED <<llama, users, chats, now, ticks, eras, wallet, signups, req>>

\* lines 109-117: the insert.  A row that breaks a unique constraint makes
\* commit() raise IntegrityError, which nothing catches: a 500 response.
SignupCommit(c) ==
    /\ pc[c] = "signup_commit"
    /\ IF UniqueOK(users, loc[c].username, loc[c].email)
       THEN LET new_user == NewUser(Len(users) + 1, loc[c].username,
                                    loc[c].email, loc[c].password)
            IN  /\ users' = Append(users, new_user)
                /\ signups' = signups \cup
                      {[username |-> req[c].username,
                        password |-> req[c].password, id |-> new_user.id]}
                /\ Finish(c, Response(201, "",
                        [kind |-> "user", message |-> "User created successfully",
                         user |-> user_to_dict(new_user)]))
       ELSE /\ users' = users
            /\ signups' = signups
            /\ Finish(c, Response(500, "IntegrityError", NoBody))
    /\ UNCHANGED <<llama, chats, now, ticks, eras, wallet, req>>

----------------------------------------------------------------------------
(* app/routes/auth.py: login, refresh, get_user                            *)

\* a login that tells an unknown username from a wrong password
login_Enumerating(table, clock, data) ==
    LET username == sanitize_input(data.username)
        found == UsersByUsername(table, username)
    IN  IF found = {} THEN Response(404, "User not found", NoBody)
        ELSE LET user == table[CHOOSE i \in found : \A j \in found : i <= j]
             IN  IF ~check_password(user, data.password)
                 THEN Response(401, "Invalid credentials", NoBody)
                 ELSE Response(200, "",
                        [kind |-> "login",
                         access_token |-> create_access_token(PyInt(user.id), clock),
                         refresh_token |-> create_refresh_token(PyInt(user.id), clock),
                         user |-> user_to_dict(user)])

\* lines 169-189
login(table, clock, data) ==
    LET username == sanitize_input(data.username)
        found == UsersByUsername(table, username)
    IN  IF found = {} THEN Response(401, "Invalid credentials", NoBody)
        ELSE LET user == table[CHOOSE i \in found : \A j \in found : i <= j]
             IN  IF ~check_password(user, data.password)
                 THEN Response(401, "Invalid credentials", NoBody)
                 ELSE Response(200, "",
                        [kind |-> "login",
                         access_token |-> create_access_token(PyInt(user.id), clock),
                         refresh_token |-> create_refresh_token(PyInt(user.id), clock),
                         user |-> user_to_dict(user)])

Login(c) ==
    /\ pc[c] = "idle"
    /\ \E un \in Usernames, pw \in Passwords :
        \E data \in {[NoRequest EXCEPT !.op = "login",
                        !.fields = {"username", "password"},
                        !.username = un, !.password = pw]} :
        \E r \in {login(users, now, data)} :
            /\ req' = [req EXCEPT ![c] = data]
            /\ Finish(c, r)
            /\ wallet' = IF r.status = 200
                         THEN [wallet EXCEPT ![c] =
                                 [access |-> r.body.access_token,
                                  refresh |-> r.body.refresh_token]]
                         ELSE wallet
    /\ UNCHANGED <<llama, users, chats, now, ticks, eras, signups>>

\* a refresh that rotates: it also issues a new refresh token
refresh_Rotating(table, clock, tok) ==
    LET gate == jwt_required(tok, TRUE, table, clock)
        current_user_id == get_jwt_identity(tok)
    IN  IF gate # NoResponse THEN gate
        ELSE Response(200, "",
                [kind |-> "refresh",
                 access_token |-> create_access_token(PyStr(current_user_id), clock),
                 refresh_token |-> create_refresh_token(PyStr(current_user_id), clock)])

\* lines 191-225
refresh(table, clock, tok) ==
    LET gate == jwt_required(tok, TRUE, table, clock)
        current_user_id == get_jwt_identity(tok)
    IN  IF gate # NoResponse THEN gate
        ELSE Response(200, "",
                [kind |-> "refresh",
                 access_token |-> create_access_token(PyStr(current_user_id), clock)])

Refresh(c, toks) ==
    /\ pc[c] = "idle"
    /\ \E tok \in toks :
        LET r == refresh(users, now, tok)
        IN  /\ req' = [req EXCEPT ![c] =
                        [NoRequest EXCEPT !.op = "refresh", !.token = tok]]
            /\ Finish(c, r)
            /\ wallet' = IF r.status = 200
                         THEN [wallet EXCEPT ![c].access = r.body.access_token]
                         ELSE wallet
    /\ UNCHANGED <<llama, users, chats, now, ticks, eras, signups>>

\* lines 227-272
get_user(table, clock, tok) ==
    LET gate == jwt_required(tok, FALSE, table, clock)
        id == StrToInt(get_jwt_identity(tok))
    IN  IF gate # NoResponse THEN gate
        ELSE IF ~UserExists(table, id) THEN Response(404, "User not found", NoBody)
        ELSE Response(200, "", [kind |-> "me", user |-> user_to_dict(table[id])])

Me(c, toks) ==
    /\ pc[c] = "idle"
    /\ \E tok \in toks :
        /\ req' = [req EXCEPT ![c] = [NoRequest EXCEPT !.op = "me", !.token = tok]]
        /\ Finish(c, get_user(users, now, tok))
    /\ UNCHANGED <<llama, users, chats, now, ticks, eras, wallet, signups>>

----------------------------------------------------------------------------
(* app/models/chat_history.py and app/services/llama_service.py            *)

NewChat(id, user_id, question, response, timestamp) ==
    [id |-> id, user_id |-> user_id, question |-> question,
     response |-> response, timestamp |-> timestamp]

\* datetime.isoformat(): the text of the timestamp, which names it uniquely
isoformat(timestamp) == [iso |-> timestamp]

chat_to_dict(chat) ==
    [id |-> chat.id, user_id |-> chat.user_id, question |-> chat.question,
     response |-> chat.response, timestamp |-> isoformat(chat.timestamp)]

Fallback == "I'm sorry, but I encountered an error while processing your question."

Answers == {"A1"}

\* what happens inside the try block of get_response: agent.run returns an
\* answer, or something in the block raises an Exception
ProviderOutcomes ==
    {[raised |-> FALSE, text |-> a] : a \in Answers}
    \cup {[raised |-> TRUE, text |-> ""]}

\* a handler that returns the text of the exception it caught
get_response_ErrorText(outcome) ==
    IF outcome.raised THEN "Error in LlamaService" ELSE outcome.text

\* the outcomes in which the provider answers
Answered == {outcome \in ProviderOutcomes : ~outcome.raised}

\* LlamaService.get_response: lines 37-142 in try, 144-146 the handler
get_response(outcome) == IF outcome.raised THEN Fallback ELSE outcome.text

----------------------------------------------------------------------------
(* app/services/llama_service.py: LlamaService.get_instance, called by     *)
(* get_llama_service.  llama.instance is the class attribute _instance (0  *)
(* for None, else the identity of the object) and llama.made counts the    *)
(* LlamaService objects constructed so far.  The method takes no lock, so  *)
(* a thread can be preempted between the test, the construction, the       *)
(* assignment and the read of the value it returns.                        *)

ServiceStages == {"service_new", "service_set", "service_return"}

\* the call returns the object it read
Returns(c, instance) ==
    Finish(c, Response(0, "", [kind |-> "service", instance |-> instance]))

\* line 19: if cls._instance is None
GetInstanceTest(c) ==
    /\ pc[c] = "idle"
    /\ req' = [req EXCEPT ![c] = [NoRequest EXCEPT !.op = "service"]]
    /\ IF llama.instance = 0
       THEN Continue(c, "service_new", [kind |-> "service", object |-> 0])
       ELSE Continue(c, "service_return", [kind |-> "service", object |-> 0])
    /\ UNCHANGED <<users, chats, now, ticks, eras, wallet, signups, llama>>

\* line 20, right-hand side: cls(), lines 23-25
GetInstanceNew(c) ==
    /\ pc[c] = "service_new"
    /\ llama' = [llama EXCEPT !.made = llama.made + 1]
    /\ Continue(c, "service_set", [kind |-> "service", object |-> llama.made + 1])
    /\ UNCHANGED <<users, chats, now, ticks, eras, wallet, signups, req>>

\* line 20, the assignment to cls._instance
GetInstanceSet(c) ==
    /\ pc[c] = "service_set"
    /\ llama' = [llama EXCEPT !.instance = loc[c].object]
    /\ Continue(c, "service_return", loc[c])
    /\ UNCHANGED <<users, chats, now, ticks, eras, wallet, signups, req>>

\* line 21: return cls._instance
GetInstanceReturn(c) ==
    /\ pc[c] = "service_return"
    /\ Returns(c, llama.instance)
    /\ UNCHANGED <<users, chats, now, ticks, eras, wallet, signups, req, llama>>

----------------------------------------------------------------------------
(* app/routes/chat.py: ask_question                                        *)

Questions == { <<"h","i">>, <<"<","b",">","y","o">> }

AskStages == {"ask_provider", "ask_commit"}

\* lines 20-92: the gate, the schema, the user query, sanitize_input
AskBegin(c, toks, qs, cap) ==
    /\ pc[c] = "idle"
    /\ Len(chats) + Cardinality({d \in Clients : pc[d] \in AskStages}) < cap
    /\ \E tok \in toks, q \in qs, fields \in {{}, {"question"}} :
        LET data == [NoRequest EXCEPT !.op = "ask", !.token = tok,
                        !.fields = fields,
                        !.question = IF fields = {} THEN <<>> ELSE q]
            gate == jwt_required(tok, FALSE, users, now)
            user_id == StrToInt(get_jwt_identity(tok))
        IN  /\ req' = [req EXCEPT ![c] = data]
            /\ IF gate # NoResponse THEN Finish(c, gate)
               ELSE IF "question" \notin data.fields
               THEN Finish(c, Response(400, "Validation error",
                                [kind |-> "fields", fields |-> {"question"}]))
               ELSE IF ~UserExists(users, user_id)
               THEN Finish(c, Response(404, "User not found", NoBody))
               ELSE Continue(c, "ask_provider",
                        [kind |-> "ask", user_id |-> users[user_id].id,
                         question |-> sanitize_input(data.question),
                         raised |-> FALSE, response |-> ""])
    /\ UNCHANGED <<llama, users, chats, now, ticks, eras, wallet, signups>>

\* a handler that inserts the row before the provider call has returned
AskProvider_Records(c, outcomes) ==
    /\ pc[c] = "ask_provider"
    /\ \E outcome \in outcomes :
        Continue(c, "ask_commit",
                 [loc[c] EXCEPT !.raised = outcome.raised,
                                !.response = get_response(outcome)])
    /\ chats' = Append(chats, NewChat(Len(chats) + 1, loc[c].user_id,
                                      loc[c].question, loc[c].response, now))
    /\ UNCHANGED <<llama, users, now, ticks, eras, wallet, signups, req>>

\* lines 94-103: the provider call, which blocks until it settles.  The
\* handle it is made through (line 95) carries no state; how the handle is
\* obtained is modelled by the GetInstance steps above.
AskProvider(c, outcomes) ==
    /\ pc[c] = "ask_provider"
    /\ \E outcome \in outcomes :
        Continue(c, "ask_commit",
                 [loc[c] EXCEPT !.raised = outcome.raised,
                                !.response = get_response(outcome)])
    /\ UNCHANGED <<llama, users, chats, now, ticks, eras, wallet, signups, req>>

\* an insert that adds the row twice
AskCommit_Twice(c) ==
    /\ pc[c] = "ask_commit"
    /\ LET chat_history == NewChat(Len(chats) + 1, loc[c].user_id,
                                   loc[c].question, loc[c].response, now)
       IN  /\ chats' = Append(Append(chats, chat_history),
                              [chat_history EXCEPT !.id = Len(chats) + 2])
           /\ Finish(c, Response(200, "",
                    [kind |-> "ask", question |-> loc[c].question,
                     response |-> loc[c].response, chat_id |-> chat_history.id]))
    /\ UNCHANGED <<llama, users, now, ticks, eras, wallet, signups, req>>

\* an insert that takes the place of the newest row instead of adding one
AskCommit_Overwrite(c) ==
    /\ pc[c] = "ask_commit"
    /\ LET id == IF chats = <<>> THEN 1 ELSE Len(chats)
           chat_history == NewChat(id, loc[c].user_id,
                                   loc[c].question, loc[c].response, now)
       IN  /\ chats' = IF chats = <<>> THEN <<chat_history>>
                        ELSE [chats EXCEPT ![id] = chat_history]
           /\ Finish(c, Response(200, "",
                    [kind |-> "ask", question |-> loc[c].question,
                     response |-> loc[c].response, chat_id |-> chat_history.id]))
    /\ UNCHANGED <<llama, users, now, ticks, eras, wallet, signups, req>>

\* lines 105-118: the insert; the row's timestamp defaults to utcnow()
AskCommit(c) ==
    /\ pc[c] = "ask_commit"
    /\ LET chat_history == NewChat(Len(chats) + 1, loc[c].user_id,
                                   loc[c].question, loc[c].response, now)
       IN  /\ chats' = Append(chats, chat_history)
           /\ Finish(c, Response(200, "",
                    [kind |-> "ask", question |-> loc[c].question,
                     response |-> loc[c].response, chat_id |-> chat_history.id]))
    /\ UNCHANGED <<llama, users, now, ticks, eras, wallet, signups, req>>

----------------------------------------------------------------------------
(* app/routes/chat.py: get_chat_history                                    *)

DefaultLimit == 10
MaxLimit == 100

\* request.args.get('limit', 10, type=int) and ('offset', 0, type=int): an
\* absent parameter arrives as its default
LimitInputs == {0, 1, DefaultLimit, MaxLimit + 1}
OffsetInputs == {-1, 0, 1}

PageLimits == {1, DefaultLimit}
PageOffsets == {0, 1}

\* The largest integer the database driver binds as a query parameter.  It
\* is 2^63 - 1 for SQLite (the configured database); it is scaled down here
\* because the model checker's integers are 32 bits wide.
MaxSqlInteger == 1000

\* offsets a client can send, one of them beyond the database's integers
WideOffsetInputs == OffsetInputs \cup {MaxSqlInteger + 1}

\* lines 187-190
EffectiveLimit(limit) == IF limit < 1 \/ limit > MaxLimit THEN DefaultLimit ELSE limit
EffectiveOffset(offset) == IF offset < 0 THEN 0 ELSE offset

\* a query without filter_by(user_id=...): the ids of everybody's rows
ChatsOf_Everyone(table, user_id) == 1..Len(table)

\* filter_by(user_id=...): the ids of the user's rows
ChatsOf(table, user_id) == {i \in 1..Len(table) : table[i].user_id = user_id}

\* order_by(timestamp.desc()): the sequences of ids the database may return.
\* Rows with equal timestamps come in an order the query does not fix.
RECURSIVE OrderedByTimestampDesc(_, _)
OrderedByTimestampDesc(table, ids) ==
    IF ids = {} THEN {<<>>}
    ELSE UNION {{<<first>> \o rest : rest \in OrderedByTimestampDesc(table, others)} :
                  <<first, others>> \in
                      {<<i, ids \ {i}>> : i \in
                          {i \in ids : \A j \in ids :
                              table[i].timestamp >= table[j].timestamp}}}

\* .limit(limit) without .offset(offset)
Page_NoOffset(order, limit, offset) ==
    SubSeq(order, 1, IF limit < Len(order) THEN limit ELSE Len(order))

\* .limit(limit).offset(offset)
Page(order, limit, offset) ==
    SubSeq(order, offset + 1,
           IF offset + limit < Len(order) THEN offset + limit ELSE Len(order))

\* lines 178-195: the gate, the clamps, the page query.  limit and offset
\* are bound as parameters of the query; the driver raises OverflowError
\* for one it cannot convert, and the request ends with a 500 response.
ListQuery(c, toks, limits, offsets) ==
    /\ pc[c] = "idle"
    /\ \E tok \in toks, limit_in \in limits, offset_in \in offsets :
        LET data == [NoRequest EXCEPT !.op = "list", !.token = tok,
                        !.limit = limit_in, !.offset = offset_in]
            gate == jwt_required(tok, FALSE, users, now)
            user_id == StrToInt(get_jwt_identity(tok))
            limit == EffectiveLimit(limit_in)
            offset == EffectiveOffset(offset_in)
        IN  /\ req' = [req EXCEPT ![c] = data]
            /\ IF gate # NoResponse THEN Finish(c, gate)
               ELSE IF offset > MaxSqlInteger
               THEN Finish(c, Response(500, "OverflowError", NoBody))
               ELSE \E order \in OrderedByTimestampDesc(chats, ChatsOf(chats, user_id)) :
                        Continue(c, "list_count",
                            [kind |-> "list", user_id |-> user_id,
                             limit |-> limit, offset |-> offset,
                             chat_history |-> Page(order, limit, offset)])
    /\ UNCHANGED <<llama, users, chats, now, ticks, eras, wallet, signups>>

\* lines 197-205: the count query and the response
ListCount(c) ==
    /\ pc[c] = "list_count"
    /\ Finish(c, Response(200, "",
            [kind |-> "list",
             chat_history |-> [i \in 1..Len(loc[c].chat_history) |->
                                  chat_to_dict(chats[loc[c].chat_history[i]])],
             total |-> Cardinality(ChatsOf(chats, loc[c].user_id)),
             limit |-> loc[c].limit, offset |-> loc[c].offset]))
    /\ UNCHANGED <<llama, users, chats, now, ticks, eras, wallet, signups, req>>

----------------------------------------------------------------------------
(* app/routes/chat.py: get_chat_item                                       *)

\* a handler that looks the entry up and returns it without comparing owners
get_chat_item_AnyOwner(table, chat_table, clock, tok, chat_id) ==
    LET gate == jwt_required(tok, FALSE, table, clock)
    IN  IF gate # NoResponse THEN gate
        ELSE IF chat_id \notin 1..Len(chat_table)
        THEN Response(404, "Chat item not found", NoBody)
        ELSE Response(200, "", [kind |-> "chat", chat |-> chat_to_dict(chat_table[chat_id])])

\* lines 207-285
get_chat_item(table, chat_table, clock, tok, chat_id) ==
    LET gate == jwt_required(tok, FALSE, table, clock)
        user_id == get_jwt_identity(tok)
    IN  IF gate # NoResponse THEN gate
        ELSE IF chat_id \notin 1..Len(chat_table)
        THEN Response(404, "Chat item not found", NoBody)
        ELSE IF chat_table[chat_id].user_id # StrToInt(user_id)
        THEN Response(403, "You do not have permission to view this chat item", NoBody)
        ELSE Response(200, "", [kind |-> "chat", chat |-> chat_to_dict(chat_table[chat_id])])

GetChatItem(c, toks) ==
    /\ pc[c] = "idle"
    /\ \E tok \in toks, chat_id \in 1..(MaxChats + 1) :
        /\ req' = [req EXCEPT ![c] =
                    [NoRequest EXCEPT !.op = "item", !.token = tok, !.chat_id = chat_id]]
        /\ Finish(c, get_chat_item(users, chats, now, tok, chat_id))
    /\ UNCHANGED <<llama, users, chats, now, ticks, eras, wallet, signups>>

----------------------------------------------------------------------------
(* The clock: utcnow() and the time the token library reads.  Two reads    *)
(* with no tick between them return the same value.                        *)

Tick ==
    /\ ticks < MaxTicks
    /\ now' = now + 1
    /\ ticks' = ticks + 1
    /\ UNCHANGED <<llama, users, chats, eras, wallet, signups, pc, req, resp, loc>>

AccessLifetimePasses ==
    /\ eras < MaxEras
    /\ now' = now + AccessLifetime
    /\ eras' = eras + 1
    /\ UNCHANGED <<llama, users, chats, ticks, wallet, signups, pc, req, resp, loc>>

RefreshLifetimePasses ==
    /\ eras < MaxEras
    /\ now' = now + RefreshLifetime
    /\ eras' = eras + 1
    /\ UNCHANGED <<llama, users, chats, ticks, wallet, signups, pc, req, resp, loc>>

----------------------------------------------------------------------------
(* Signup, two concurrent clients, from an empty database.                 *)

Init ==
    /\ users = <<>>
    /\ chats = <<>>
    /\ now = 0
    /\ ticks = 0
    /\ eras = 0
    /\ wallet = [c \in Clients |-> EmptyWallet]
    /\ signups = {}
    /\ pc = [c \in Clients |-> "idle"]
    /\ req = [c \in Clients |-> NoRequest]
    /\ resp = [c \in Clients |-> NoResponse]
    /\ loc = [c \in Clients |-> NoLocals]
    /\ llama = NoService

NextSignup ==
    \/ \E c \in Clients : SignupBegin(c)
    \/ \E c \in Clients : SignupCheckEmail(c)
    \/ \E c \in Clients : SignupCommit(c)

SpecSignup == Init /\ [][NextSignup]_vars

(* Signup and login, one client after the other request, from an empty     *)
(* database.                                                               *)

Solo == {1}

NextLogin ==
    \/ \E c \in Solo : SignupBegin(c)
    \/ \E c \in Solo : SignupCheckEmail(c)
    \/ \E c \in Solo : SignupCommit(c)
    \/ \E c \in Solo : Login(c)

SpecLogin == Init /\ [][NextLogin]_vars

----------------------------------------------------------------------------
(* The protected operations start from a database that holds two users     *)
(* who have signed up and logged in; each client holds the tokens of one   *)
(* of them, client 1 those of user 1.                                      *)

Registered ==
    << NewUser(1, <<"b","o","b">>, <<"a","@","x",".","i","o">>, GoodPassword),
       NewUser(2, <<"a","b">>, <<"b","@","x",".","i","o">>, GoodPassword) >>

LoggedIn(id) ==
    [access |-> create_access_token(PyInt(id), 0),
     refresh |-> create_refresh_token(PyInt(id), 0)]

InitChat ==
    /\ users = Registered
    /\ chats = <<>>
    /\ now = 0
    /\ ticks = 0
    /\ eras = 0
    /\ wallet \in {w \in [Clients -> {LoggedIn(i) : i \in 1..Len(Registered)}] :
                      w[1] = LoggedIn(1)}
    /\ signups = {[username |-> Registered[i].username,
                    password |-> GoodPassword, id |-> i] :
                      i \in 1..Len(Registered)}
    /\ pc = [c \in Clients |-> "idle"]
    /\ req = [c \in Clients |-> NoRequest]
    /\ resp = [c \in Clients |-> NoResponse]
    /\ loc = [c \in Clients |-> NoLocals]
    /\ llama = NoService

(* ask-question and chat-history/<id>, two concurrent clients.             *)

NextChat ==
    \/ \E c \in Clients : AskBegin(c, {wallet[c].access}, Questions, MaxChats)
    \/ \E c \in Clients : AskProvider(c, ProviderOutcomes)
    \/ \E c \in Clients : AskCommit(c)
    \/ \E c \in Clients : GetChatItem(c, {wallet[c].access})
    \/ Tick

SpecChat == InitChat /\ [][NextChat]_vars

(* ask-question and the chat-history list, two concurrent clients.         *)

OneQuestion == { <<"h","i">> }

NextHistory ==
    \/ \E c \in Clients : AskBegin(c, {wallet[c].access}, OneQuestion, MaxChats)
    \/ \E c \in Clients : AskProvider(c, Answered)
    \/ \E c \in Clients : AskCommit(c)
    \/ \E c \in Clients : ListQuery(c, {wallet[c].access}, PageLimits, PageOffsets)
    \/ \E c \in Clients : ListCount(c)
    \/ Tick

SpecHistory == InitChat /\ [][NextHistory]_vars

(* The list of one client while both clients, who may be the same user or *)
(* two users, ask questions.                                               *)

NextIsolation ==
    \/ \E c \in Clients : AskBegin(c, {wallet[c].access}, OneQuestion, MaxChats)
    \/ \E c \in Clients : AskProvider(c, Answered)
    \/ \E c \in Clients : AskCommit(c)
    \/ \E c \in Solo : ListQuery(c, {wallet[c].access}, PageLimits, PageOffsets)
    \/ \E c \in Solo : ListCount(c)
    \/ Tick

SpecIsolation == InitChat /\ [][NextIsolation]_vars

(* ask-question and the chat-history list, one client, on a ledger that    *)
(* already holds Backlog entries of earlier requests: the first of user 2, *)
(* the others of user 1, one second apart.                                 *)

Asked ==
    [i \in 1..Backlog |->
        NewChat(i, IF i = 1 THEN 2 ELSE 1, <<"h","i">>, "A1", i - Backlog - 1)]

InitLedger ==
    /\ users = Registered
    /\ chats = Asked
    /\ now = 0
    /\ ticks = 0
    /\ eras = 0
    /\ wallet = [c \in Clients |-> LoggedIn(1)]
    /\ signups = {[username |-> Registered[i].username,
                    password |-> GoodPassword, id |-> i] :
                      i \in 1..Len(Registered)}
    /\ pc = [c \in Clients |-> "idle"]
    /\ req = [c \in Clients |-> NoRequest]
    /\ resp = [c \in Clients |-> NoResponse]
    /\ loc = [c \in Clients |-> NoLocals]
    /\ llama = NoService

NextLedger ==
    \/ \E c \in Solo : AskBegin(c, {wallet[c].access}, OneQuestion, Backlog + MaxChats)
    \/ \E c \in Solo : AskProvider(c, Answered)
    \/ \E c \in Solo : AskCommit(c)
    \/ \E c \in Solo : ListQuery(c, {wallet[c].access}, LimitInputs, OffsetInputs)
    \/ \E c \in Solo : ListCount(c)
    \/ Tick

SpecLedger == InitLedger /\ [][NextLedger]_vars

(* get_llama_service called by two threads of the process, again and      *)
(* again and at any time.                                                  *)

NextSingleton ==
    \/ \E c \in Clients : GetInstanceTest(c)
    \/ \E c \in Clients : GetInstanceNew(c)
    \/ \E c \in Clients : GetInstanceSet(c)
    \/ \E c \in Clients : GetInstanceReturn(c)
    \/ Tick

SpecSingleton == Init /\ [][NextSingleton]_vars

(* signup with addresses that are written differently and have the same   *)
(* normalized form, one client, from an empty database.                    *)

CaseEmails == { <<"a","@","x",".","i","o">>, <<"a","@","X",".","i","o">> }

NextEmail ==
    \/ \E c \in Solo : SignupBeginFrom(c, CaseEmails)
    \/ \E c \in Solo : SignupCheckEmail(c)
    \/ \E c \in Solo : SignupCommit(c)

SpecEmail == Init /\ [][NextEmail]_vars

(* The lifetime of tokens.  One user is stored and client 1 has logged in  *)
(* as that user at time 0; it goes on using and refreshing its tokens      *)
(* while the other client signs up and logs in and while time passes by    *)
(* whole access and refresh lifetimes.                                     *)

Others == Clients \ Solo

InitTokens ==
    /\ users = SubSeq(Registered, 1, 1)
    /\ chats = <<>>
    /\ now = 0
    /\ ticks = 0
    /\ eras = 0
    /\ wallet = [c \in Clients |-> IF c \in Solo THEN LoggedIn(1) ELSE EmptyWallet]
    /\ signups = {[username |-> Registered[1].username,
                    password |-> GoodPassword, id |-> 1]}
    /\ pc = [c \in Clients |-> "idle"]
    /\ req = [c \in Clients |-> NoRequest]
    /\ resp = [c \in Clients |-> NoResponse]
    /\ loc = [c \in Clients |-> NoLocals]
    /\ llama = NoService

NextTokens ==
    \/ \E c \in Solo : Me(c, {wallet[c].access})
    \/ \E c \in Solo : Refresh(c, {wallet[c].refresh})
    \/ \E c \in Others : SignupBegin(c)
    \/ \E c \in Others : SignupCheckEmail(c)
    \/ \E c \in Others : SignupCommit(c)
    \/ \E c \in Others : Login(c)
    \/ AccessLifetimePasses
    \/ RefreshLifetimePasses

SpecTokens == InitTokens /\ [][NextTokens]_vars

(* The chat-history list with every kind of pagination input.              *)

NextPaging ==
    \/ \E c \in Solo : AskBegin(c, {wallet[c].access}, OneQuestion, MaxChats)
    \/ \E c \in Solo : AskProvider(c, Answered)
    \/ \E c \in Solo : AskCommit(c)
    \/ \E c \in Solo : ListQuery(c, {wallet[c].access}, LimitInputs, WideOffsetInputs)
    \/ \E c \in Solo : ListCount(c)
    \/ Tick

SpecPaging == InitChat /\ [][NextPaging]_vars

(* The token gate in front of every protected operation: one client, any   *)
(* bearer token it can send, and time passing until its tokens expire.     *)

NextGate ==
    \/ \E c \in Solo : Me(c, TokenChoices(c))
    \/ \E c \in Solo : Refresh(c, TokenChoices(c))
    \/ \E c \in Solo : AskBegin(c, TokenChoices(c), OneQuestion, MaxChats)
    \/ \E c \in Solo : AskProvider(c, ProviderOutcomes)
    \/ \E c \in Solo : AskCommit(c)
    \/ \E c \in Solo : ListQuery(c, TokenChoices(c), {DefaultLimit}, {0})
    \/ \E c \in Solo : ListCount(c)
    \/ \E c \in Solo : GetChatItem(c, TokenChoices(c))
    \/ AccessLifetimePasses
    \/ RefreshLifetimePasses

SpecGate == InitChat /\ [][NextGate]_vars

(* Every exposed operation, one client, from an empty database: signup,    *)
(* login, refresh, me, ask-question, the list and the single entry, with   *)
(* whatever token the client holds.                                        *)

NextService ==
    \/ \E c \in Solo : SignupBegin(c)
    \/ \E c \in Solo : SignupCheckEmail(c)
    \/ \E c \in Solo : SignupCommit(c)
    \/ \E c \in Solo : Login(c)
    \/ \E c \in Solo : Refresh(c, {wallet[c].refresh})
    \/ \E c \in Solo : Me(c, {wallet[c].access})
    \/ \E c \in Solo : AskBegin(c, {wallet[c].access}, OneQuestion, MaxChats)
    \/ \E c \in Solo : AskProvider(c, ProviderOutcomes)
    \/ \E c \in Solo : AskCommit(c)
    \/ \E c \in Solo : ListQuery(c, {wallet[c].access}, {DefaultLimit}, {0})
    \/ \E c \in Solo : ListCount(c)
    \/ \E c \in Solo : GetChatItem(c, {wallet[c].access})
    \/ Tick

SpecService == Init /\ [][NextService]_vars

(* me and ask-question, two concurrent clients, each sending no token, its *)
(* own access token, or an access token that was issued by this service    *)
(* to a user whose row is no longer in the users table.                    *)

OrphanToken == create_access_token(PyInt(Len(users) + 1), now)

BearerChoices(c) == {MissingToken, wallet[c].access, OrphanToken}

NextOrphan ==
    \/ \E c \in Clients : Me(c, BearerChoices(c))
    \/ \E c \in Clients : AskBegin(c, BearerChoices(c), OneQuestion, MaxChats)
    \/ \E c \in Clients : AskProvider(c, ProviderOutcomes)
    \/ \E c \in Clients : AskCommit(c)
    \/ Tick

SpecOrphan == InitChat /\ [][NextOrphan]_vars

----------------------------------------------------------------------------
(* Properties of signup (SpecSignup).                                      *)

\* in this step client c sends a request for operation op
Sends(c, op) ==
    /\ pc[c] = "idle"
    /\ req'[c].op = op
    /\ <<req'[c], resp'[c], pc'[c]>> # <<req[c], resp[c], pc[c]>>

\* C1: in every reachable state no two stored users share a username and
\* no two stored users share an email, whatever the interleaving of the
\* concurrent signup requests.
C1_UsernamesAndEmailsUnique ==
    \A i, j \in 1..Len(users) :
        i # j => /\ users[i].username # users[j].username
                 /\ users[i].email # users[j].email

\* two users are stored and a racing insert was refused by the table
C1_Witness ==
    /\ Len(users) >= 2
    /\ \E c \in Clients : req[c].op = "signup" /\ resp[c].status = 500

\* C2: of two signups that carry the same username and pass validation,
\* one is answered 201 and the other 409, also when they run concurrently.
C2_RaceIsCreatedAndConflict ==
    \A c1, c2 \in Clients :
        ( /\ c1 # c2
          /\ pc[c1] = "idle" /\ req[c1].op = "signup"
          /\ pc[c2] = "idle" /\ req[c2].op = "signup"
          /\ resp[c1].status = 201
          /\ resp[c2].status # 400
          /\ resp[c1].body.user.username = sanitize_input(req[c2].username) )
        => resp[c2].status = 409

\* C13: every signup request ends in exactly one of four outcomes: 201,
\* 409 'Username already exists', 409 'Email already exists', or 400.
C13_SignupEndsInOneOfFour ==
    \A c \in Clients :
        (pc[c] = "idle" /\ req[c].op = "signup") =>
            \/ resp[c].status \in {201, 400}
            \/ /\ resp[c].status = 409
               /\ resp[c].error \in {"Username already exists",
                                      "Email already exists"}

\* C14: the username query comes first.  A valid signup whose (sanitized)
\* username is stored when the request is handled is answered 409
\* 'Username already exists' whether or not its email is stored as well; a
\* valid signup whose username is free goes on to the email query, and 409
\* 'Email already exists' is answered only by that email query, when the
\* email is stored.
C14_UsernameConflictComesFirst ==
    [][\A c \in Clients :
          /\ (Sends(c, "signup") /\ signup_validate(req'[c]) = NoResponse) =>
                IF UsersByUsername(users, sanitize_input(req'[c].username)) # {}
                THEN /\ resp'[c] = Response(409, "Username already exists", NoBody)
                     /\ pc'[c] = "idle"
                ELSE /\ pc'[c] = "signup_email"
                     /\ loc'[c].username = sanitize_input(req'[c].username)
          /\ (pc[c] = "signup_email" /\ pc'[c] # "signup_email") =>
                IF UsersByEmail(users, req[c].email) # {}
                THEN /\ resp'[c] = Response(409, "Email already exists", NoBody)
                     /\ pc'[c] = "idle"
                ELSE pc'[c] = "signup_commit"
          /\ (resp'[c] # resp[c] /\ resp'[c].error = "Email already exists") =>
                /\ pc[c] = "signup_email"
                /\ UsersByEmail(users, req[c].email) # {}
      ]_vars

\* one user is stored and a signup that repeats both its username and its
\* email has been answered 409 'Username already exists'
C14_Witness ==
    /\ Len(users) = 1
    /\ \E c \in Clients :
          /\ pc[c] = "idle" /\ req[c].op = "signup"
          /\ resp[c] = Response(409, "Username already exists", NoBody)
          /\ users[1].username = sanitize_input(req[c].username)
          /\ users[1].email = req[c].email

\* C20: every stored username has 3 to 50 characters.
C20_StoredUsernameLength ==
    \A i \in 1..Len(users) :
        Len(users[i].username) \in MinUsernameLen..MaxUsernameLen

----------------------------------------------------------------------------
(* Properties of the chat ledger (SpecChat).                               *)

\* tok is a correctly signed, unexpired token of the given kind whose
\* subject is the id of a stored user
ValidToken(tok, kind) ==
    /\ tok.kind = kind
    /\ tok.sig = "ok"
    /\ tok.exp > now
    /\ StrToInt(tok.sub) \in 1..Len(users)

\* C3: GET /api/chat-history/<id> with a valid access token of user B
\* answers 404 when no entry has that id, 403 without any entry content
\* when the entry belongs to another user, and 200 with the stored
\* question and response only when the entry belongs to B.
C3_ItemNotFoundForbiddenOrOwn ==
    [][\A c \in Clients :
        (Sends(c, "item") /\ ValidToken(req'[c].token, "access")) =>
            LET id == req'[c].chat_id
                B == StrToInt(req'[c].token.sub)
                r == resp'[c]
            IN  /\ pc'[c] = "idle"
                /\ id \notin 1..Len(chats) => r.status = 404 /\ r.body = NoBody
                /\ id \in 1..Len(chats) /\ chats[id].user_id # B =>
                      r.status = 403 /\ r.body = NoBody
                /\ id \in 1..Len(chats) /\ chats[id].user_id = B =>
                      /\ r.status = 200
                      /\ r.body.chat.id = id
                      /\ r.body.chat.question = chats[id].question
                      /\ r.body.chat.response = chats[id].response
      ]_vars

\* one client was refused another user's entry and the other client read
\* its own
C3_Witness ==
    \E c1, c2 \in Clients :
        /\ req[c1].op = "item" /\ resp[c1].status = 403
        /\ req[c1].chat_id \in 1..Len(chats)
        /\ req[c2].op = "item" /\ resp[c2].status = 200
        /\ resp[c2].body.chat.user_id = StrToInt(req[c2].token.sub)

\* C10: when the answer provider raises, ask-question still answers 200,
\* the response text is the fallback apology, and the request persists
\* exactly one ledger entry, whose response is that fallback text.
C10_ProviderFailureIsFallback ==
    [][\A c \in Clients :
        /\ (pc[c] = "ask_provider" /\ pc'[c] # "ask_provider" /\ loc'[c].raised) =>
              /\ pc'[c] = "ask_commit"
              /\ loc'[c].response = Fallback
              /\ chats' = chats
        /\ (pc[c] = "ask_commit" /\ pc'[c] # "ask_commit" /\ loc[c].raised) =>
              /\ resp'[c].status = 200
              /\ resp'[c].body.response = Fallback
              /\ Len(chats') = Len(chats) + 1
              /\ SubSeq(chats', 1, Len(chats)) = chats
              /\ chats'[Len(chats')].id = resp'[c].body.chat_id
              /\ chats'[Len(chats')].response = Fallback
              /\ chats'[Len(chats')].user_id = loc[c].user_id
              /\ chats'[Len(chats')].question = loc[c].question
      ]_vars

\* an ask whose provider call raised was answered 200 with the fallback
\* text, and the entry it names holds that text
C10_Witness ==
    \E c \in Clients :
        /\ req[c].op = "ask" /\ pc[c] = "idle"
        /\ resp[c].status = 200
        /\ resp[c].body.response = Fallback
        /\ resp[c].body.chat_id \in 1..Len(chats)
        /\ chats[resp[c].body.chat_id].response = Fallback

\* client c has received the 200 response of an ask-question request
\* (evaluated in the state after the step)
AnsweredAsk(c) ==
    /\ pc'[c] = "idle" /\ req'[c].op = "ask" /\ resp'[c].status = 200

\* C19: concurrent ask-question calls, of one user or of two, do not
\* disturb each other.  Every call that passes the gate and the schema is
\* answered 200; the step that answers it adds exactly one entry, under a
\* new id that no other answered call names, holding the call's own
\* question (sanitized), its own response and its user, and leaves the
\* other call's pending question and response and its answer alone; no
\* other step touches the ledger, so no entry is lost or overwritten.
C19_ConcurrentAsksAreBothRecorded ==
    [][/\ \A c \in Clients :
            /\ (Sends(c, "ask") /\ ValidToken(req'[c].token, "access")
                   /\ "question" \in req'[c].fields) =>
                  /\ pc'[c] = "ask_provider"
                  /\ loc'[c].question = sanitize_input(req'[c].question)
                  /\ loc'[c].user_id = StrToInt(req'[c].token.sub)
            /\ (pc[c] = "ask_provider" /\ pc'[c] # "ask_provider") =>
                  /\ pc'[c] = "ask_commit"
                  /\ loc'[c].question = loc[c].question
                  /\ loc'[c].user_id = loc[c].user_id
                  /\ req'[c] = req[c]
                  /\ \A d \in Clients \ {c} : loc'[d] = loc[d]
            /\ (pc[c] = "ask_commit" /\ pc'[c] # "ask_commit") =>
                  /\ req'[c] = req[c]
                  /\ resp'[c] = Response(200, "",
                        [kind |-> "ask", question |-> loc[c].question,
                         response |-> loc[c].response,
                         chat_id |-> Len(chats) + 1])
                  /\ chats' = Append(chats,
                        NewChat(Len(chats) + 1, loc[c].user_id,
                                loc[c].question, loc[c].response, now))
                  /\ \A d \in Clients \ {c} :
                        /\ loc'[d] = loc[d] /\ resp'[d] = resp[d]
                        /\ AnsweredAsk(d) => resp'[d].body.chat_id \in 1..Len(chats)
       /\ (\A c \in Clients : pc[c] = "ask_commit" => pc'[c] = "ask_commit")
             => chats' = chats
      ]_vars

\* two calls of the same user with different questions have both been
\* answered 200, with different responses, and the ledger holds the two
\* entries
C19_Witness ==
    \E c1, c2 \in Clients :
        /\ c1 # c2
        /\ pc[c1] = "idle" /\ req[c1].op = "ask" /\ resp[c1].status = 200
        /\ pc[c2] = "idle" /\ req[c2].op = "ask" /\ resp[c2].status = 200
        /\ req[c1].token.sub = req[c2].token.sub
        /\ req[c1].question # req[c2].question
        /\ resp[c1].body.response # resp[c2].body.response
        /\ Len(chats) = 2
        /\ {resp[c1].body.chat_id, resp[c2].body.chat_id} = {1, 2}
        /\ chats[1].timestamp = chats[2].timestamp

----------------------------------------------------------------------------
(* Properties of the token gate (SpecGate).                                *)

ProtectedOps == {"me", "refresh", "ask", "list", "item"}

\* in this step client c is answered 401 with the given message and
\* nothing of its request runs: no handler stage is entered, no entry is
\* written, no token is issued
Refused(c, message) ==
    /\ resp'[c].status = 401
    /\ resp'[c].error = message
    /\ resp'[c].body = NoBody
    /\ pc'[c] = "idle"
    /\ loc'[c] = NoLocals
    /\ chats' = chats
    /\ users' = users
    /\ wallet' = wallet

\* C4: each of the five protected operations answers 401 "Authorization
\* required" to a request without token, 401 "Invalid token" to a token
\* whose signature does not verify, and 401 "Token has expired" to a
\* correctly signed token past its expiry, and in each case the handler
\* does not run.
C4_GateRefusesBadTokens ==
    [][\A c \in Clients, op \in ProtectedOps :
        Sends(c, op) =>
            LET tok == req'[c].token
            IN  /\ tok.kind = "none" => Refused(c, "Authorization required")
                /\ tok.kind # "none" /\ tok.sig # "ok" =>
                      Refused(c, "Invalid token")
                /\ tok.kind # "none" /\ tok.sig = "ok" /\ tok.exp < now =>
                      Refused(c, "Token has expired")
      ]_vars

\* an ask-question request that carried an expired access token was
\* answered 401 "Token has expired"
C4_Witness ==
    \E c \in Clients :
        /\ req[c].op = "ask"
        /\ req[c].token.kind = "access" /\ req[c].token.sig = "ok"
        /\ req[c].token.exp < now
        /\ resp[c].status = 401 /\ resp[c].error = "Token has expired"

\* C5: a valid refresh token is accepted by POST /api/auth/refresh, which
\* issues an access token for the same subject, and is rejected with 401
\* "Invalid token" by every other protected operation, whose handler does
\* not run; a valid access token is rejected by refresh and passes the
\* gate of the other operations.
C5_TokenKindsAreNotInterchangeable ==
    [][\A c \in Clients, op \in ProtectedOps :
        (Sends(c, op) /\ req'[c].token.kind # "none"
           /\ ValidToken(req'[c].token, req'[c].token.kind)) =>
            LET tok == req'[c].token
            IN  /\ tok.kind = "refresh" /\ op = "refresh" =>
                      /\ resp'[c].status = 200
                      /\ resp'[c].body.access_token.kind = "access"
                      /\ resp'[c].body.access_token.sig = "ok"
                      /\ resp'[c].body.access_token.sub = tok.sub
                /\ tok.kind = "refresh" /\ op # "refresh" =>
                      Refused(c, "Invalid token")
                /\ tok.kind = "access" /\ op = "refresh" =>
                      Refused(c, "Invalid token")
                /\ tok.kind = "access" /\ op # "refresh" =>
                      resp'[c].status # 401
      ]_vars

\* an unexpired refresh token was refused by ask-question, and no entry
\* was written
C5_Witness ==
    \E c \in Clients :
        /\ req[c].op = "ask"
        /\ req[c].token.kind = "refresh" /\ req[c].token.sig = "ok"
        /\ req[c].token.exp > now
        /\ resp[c].status = 401 /\ resp[c].error = "Invalid token"
        /\ chats = <<>>

\* C16: refreshing does not rotate or invalidate the refresh token.  Every
\* refresh request that carries a correctly signed, unexpired refresh token
\* R of a stored user is answered 200 with a newly issued access token for
\* the user id of R and with nothing else; the step changes no users, no
\* ledger entries and no clock, the client still holds R, and R is accepted
\* by refresh again in the state after the step.
C16_RefreshDoesNotRotate ==
    [][\A c \in Clients :
        (Sends(c, "refresh") /\ ValidToken(req'[c].token, "refresh")) =>
            LET R == req'[c].token
            IN  /\ resp'[c].status = 200
                /\ DOMAIN resp'[c].body = {"kind", "access_token"}
                /\ resp'[c].body.access_token
                      = [kind |-> "access", sub |-> R.sub,
                         exp |-> now + AccessLifetime, sig |-> "ok"]
                /\ StrToInt(resp'[c].body.access_token.sub) = StrToInt(R.sub)
                /\ <<users', chats', signups', now'>> = <<users, chats, signups, now>>
                /\ wallet'[c].refresh = wallet[c].refresh
                /\ jwt_required(R, TRUE, users', now') = NoResponse
                /\ refresh(users', now', R) = resp'[c]
      ]_vars

\* the refresh token of the login is used again after the access token of
\* an earlier refresh has expired, and is answered 200
C16_Witness ==
    \E c \in Clients :
        /\ req[c].op = "refresh" /\ resp[c].status = 200
        /\ req[c].token = LoggedIn(1).refresh
        /\ now >= 2 * AccessLifetime
        /\ resp[c].body.access_token.exp = now + AccessLifetime

----------------------------------------------------------------------------
(* Properties of login (SpecLogin).                                        *)

\* C6: login with the username and password of an earlier successful
\* signup answers 200, and the subjects of the access and the refresh
\* token it returns, read back through int(), are the id of that user.
C6_LoginAfterSignupYieldsTheUser ==
    [][\A c \in Clients, k \in signups :
        ( /\ Sends(c, "login")
          /\ req'[c].username = k.username
          /\ req'[c].password = k.password ) =>
            /\ resp'[c].status = 200
            /\ resp'[c].body.user.id = k.id
            /\ resp'[c].body.access_token.kind = "access"
            /\ resp'[c].body.refresh_token.kind = "refresh"
            /\ user_lookup_callback(users, resp'[c].body.access_token.sub) = k.id
            /\ user_lookup_callback(users, resp'[c].body.refresh_token.sub) = k.id
            /\ wallet'[c].access = resp'[c].body.access_token
            /\ \A id \in 1..MaxId :
                  StrToInt(user_identity_lookup(PyInt(id))) = id
      ]_vars

\* a user who signed up with a username that sanitize_input rewrites has
\* logged in with the username as submitted
C6_Witness ==
    \E c \in Clients, k \in signups :
        /\ req[c].op = "login" /\ resp[c].status = 200
        /\ req[c].username = k.username
        /\ users[k.id].username # k.username
        /\ StrToInt(wallet[c].access.sub) = k.id

\* C7: a login that names no stored user and a login with a wrong
\* password for a stored user get the same response, status 401 with
\* error "Invalid credentials" and nothing else, and neither issues a
\* token or changes a stored user.
C7_LoginFailuresAreAlike ==
    [][\A c \in Clients :
        Sends(c, "login") =>
            \A username \in {sanitize_input(req'[c].username)} :
                LET unknown == \A i \in 1..Len(users) : users[i].username # username
                    wrong == \E k \in signups :
                                /\ users[k.id].username = username
                                /\ k.password # req'[c].password
                IN  (unknown \/ wrong) =>
                        /\ resp'[c] = [status |-> 401,
                                       error |-> "Invalid credentials",
                                       body |-> NoBody]
                        /\ wallet' = wallet
                        /\ users' = users
      ]_vars

\* a login with a wrong password for a stored user was answered 401
C7_Witness ==
    \E c \in Clients, k \in signups :
        /\ req[c].op = "login" /\ resp[c].status = 401
        /\ req[c].username = k.username
        /\ req[c].password # k.password

----------------------------------------------------------------------------
(* Properties of the chat-history list (SpecLedger, SpecHistory).          *)

\* the ids of the entries of user_id that are newer than entry id, and of
\* those that are not older, entry id included
Newer(user_id, id) ==
    {i \in 1..Len(chats) : /\ chats[i].user_id = user_id
                           /\ chats[i].timestamp > chats[id].timestamp}
NotOlder(user_id, id) ==
    {i \in 1..Len(chats) : /\ chats[i].user_id = user_id
                           /\ chats[i].timestamp >= chats[id].timestamp}

\* C8, as amended: when user A owns N entries and no ask of A is in
\* flight, GET /api/chat-history with A's token returns the entries at
\* positions offset+1 .. offset+limit of A's entries in non-increasing
\* timestamp order, with the effective limit (10 by default, 1..100) and
\* offset, that is min(limit, max(N - offset, 0)) entries, all N only
\* when N - offset <= limit and offset = 0; and total == N.
C8_ListReturnsThePageAndTheTotal ==
    [][\A c \in Clients :
        /\ (Sends(c, "list") /\ ValidToken(req'[c].token, "access")) =>
              LET A == StrToInt(req'[c].token.sub)
                  N == Cardinality({i \in 1..Len(chats) : chats[i].user_id = A})
                  L == IF req'[c].limit \in 1..MaxLimit
                       THEN req'[c].limit ELSE DefaultLimit
                  O == IF req'[c].offset < 0 THEN 0 ELSE req'[c].offset
                  page == loc'[c].chat_history
              IN  /\ pc'[c] = "list_count"
                  /\ Len(page) = IF N - O < 0 THEN 0
                                 ELSE IF N - O < L THEN N - O ELSE L
                  /\ \A i \in 1..Len(page) :
                        /\ page[i] \in 1..Len(chats)
                        /\ chats[page[i]].user_id = A
                        /\ Cardinality(Newer(A, page[i])) <= O + i - 1
                        /\ Cardinality(NotOlder(A, page[i])) >= O + i
                  /\ Cardinality({page[i] : i \in 1..Len(page)}) = Len(page)
                  /\ \A i \in 1..(Len(page) - 1) :
                        chats[page[i]].timestamp >= chats[page[i + 1]].timestamp
        /\ (pc[c] = "list_count" /\ pc'[c] = "idle") =>
              LET A == StrToInt(req[c].token.sub)
                  page == loc[c].chat_history
                  body == resp'[c].body
              IN  /\ resp'[c].status = 200
                  /\ body.total = Cardinality({i \in 1..Len(chats) : chats[i].user_id = A})
                  /\ Len(body.chat_history) = Len(page)
                  /\ \A i \in 1..Len(page) :
                        /\ body.chat_history[i].id = page[i]
                        /\ body.chat_history[i].question = chats[page[i]].question
                        /\ body.chat_history[i].response = chats[page[i]].response
                        /\ body.chat_history[i].timestamp
                              = isoformat(chats[page[i]].timestamp)
      ]_vars

\* a list request without limit and offset was answered with the ten
\* newest of more than ten entries, and with their total
C8_Witness ==
    \E c \in Clients :
        /\ req[c].op = "list" /\ pc[c] = "idle" /\ resp[c].status = 200
        /\ req[c].limit = DefaultLimit /\ req[c].offset = 0
        /\ resp[c].body.total > DefaultLimit
        /\ Len(resp[c].body.chat_history) = DefaultLimit
        /\ chats[resp[c].body.chat_history[1].id].timestamp
              > chats[resp[c].body.chat_history[DefaultLimit].id].timestamp

\* C8, as stated: after N successful asks by A, GET /api/chat-history
\* with A's token (no limit, no offset) returns exactly N entries in
\* non-increasing timestamp order, and total == N.
C8_ListReturnsAllEntries ==
    [][\A c \in Clients :
        ( /\ pc[c] = "list_count" /\ pc'[c] = "idle"
          /\ req[c].limit = DefaultLimit /\ req[c].offset = 0 ) =>
            LET A == StrToInt(req[c].token.sub)
                N == Cardinality({i \in 1..Len(chats) : chats[i].user_id = A})
                body == resp'[c].body
            IN  /\ resp'[c].status = 200
                /\ body.total = N
                /\ Len(body.chat_history) = N
                /\ \A i, j \in 1..Len(body.chat_history) :
                      i < j => chats[body.chat_history[i].id].timestamp
                                 >= chats[body.chat_history[j].id].timestamp
      ]_vars

\* C9: the pages (limit L, offset 0) and (limit L, offset L) of one user's
\* history never hold the same entry, also when entries are inserted
\* between the two requests, and two entries with equal timestamps come
\* in the same relative order in every listing.
C9_PagesAreStable ==
    \A c1, c2 \in Clients :
        ( /\ c1 # c2
          /\ pc[c1] = "idle" /\ req[c1].op = "list" /\ resp[c1].status = 200
          /\ pc[c2] = "idle" /\ req[c2].op = "list" /\ resp[c2].status = 200
          /\ req[c1].token.sub = req[c2].token.sub ) =>
            LET p1 == resp[c1].body.chat_history
                p2 == resp[c2].body.chat_history
            IN  /\ ( /\ req[c1].limit = req[c2].limit
                      /\ req[c1].offset = 0
                      /\ req[c2].offset = req[c1].limit ) =>
                        \A i \in 1..Len(p1), j \in 1..Len(p2) : p1[i].id # p2[j].id
                /\ \A i, j \in 1..Len(p1), k, l \in 1..Len(p2) :
                      ( /\ i < j
                        /\ p1[i].timestamp = p1[j].timestamp
                        /\ p1[i].id = p2[k].id /\ p1[j].id = p2[l].id ) => k < l

----------------------------------------------------------------------------
(* Properties of the ledger under every operation (SpecService).           *)

\* C11: the chat ledger is append-only.  In every step of every exposed
\* operation the entries already written stay as they are (id, user_id,
\* question, response, timestamp) and none is removed; every entry is
\* owned by one stored user; the ledger changes only in the step in which
\* an ask-question request succeeds, and that step adds exactly one entry.
C11_LedgerIsAppendOnly ==
    [][/\ Len(chats') >= Len(chats)
       /\ SubSeq(chats', 1, Len(chats)) = chats
       /\ Len(chats') <= Len(chats) + 1
       /\ \A i \in 1..Len(chats') :
             /\ chats'[i].id = i
             /\ \E k \in 1..Len(users') : users'[k].id = chats'[i].user_id
       /\ chats' # chats =>
             \E c \in Clients :
                 /\ req[c].op = "ask" /\ req'[c] = req[c]
                 /\ pc[c] # "idle" /\ pc'[c] = "idle"
                 /\ resp'[c].status = 200
                 /\ resp'[c].body.chat_id = Len(chats')
       /\ \A c \in Clients :
             (req'[c].op = "ask" /\ pc[c] # "idle" /\ pc'[c] = "idle") =>
                 /\ resp'[c].status = 200
                 /\ Len(chats') = Len(chats) + 1
      ]_vars

\* two entries have been written, a second user has signed up since, and
\* the client has just listed its history
C11_Witness ==
    /\ Len(chats) >= 2
    /\ Len(users) >= 2
    /\ \E c \in Clients : req[c].op = "list" /\ resp[c].status = 200

----------------------------------------------------------------------------
(* Properties of requests from a user without a row (SpecOrphan).          *)

\* C12: a me or ask-question request whose access token is correctly
\* signed and unexpired but names a user id that is not in the users table
\* is answered 404 'User not found'.
C12_UnknownSubjectIsNotFound ==
    [][\A c \in Clients :
          (/\ Sends(c, "me") \/ (Sends(c, "ask") /\ req'[c].fields = {"question"})
           /\ req'[c].token.kind = "access"
           /\ req'[c].token.sig = "ok"
           /\ req'[c].token.exp > now
           /\ StrToInt(req'[c].token.sub) \notin 1..Len(users))
          => resp'[c] = Response(404, "User not found", NoBody)
      ]_vars

----------------------------------------------------------------------------
(* Properties of the pagination parameters (SpecPaging).                   *)

\* C15: the chat-history list never rejects pagination input.  For every
\* integer limit and offset sent with a valid access token the request is
\* answered 200; the response echoes the effective limit (the limit when
\* it is in 1..100, else 10) and the effective offset (the offset when it
\* is not negative, else 0), and holds no more entries than that limit.
C15_PaginationNeverRejected ==
    [][\A c \in Clients :
        /\ (Sends(c, "list") /\ ValidToken(req'[c].token, "access")) =>
              /\ pc'[c] = "list_count"
              /\ loc'[c].limit = IF req'[c].limit \in 1..MaxLimit
                                 THEN req'[c].limit ELSE DefaultLimit
              /\ loc'[c].offset = IF req'[c].offset < 0 THEN 0 ELSE req'[c].offset
              /\ Len(loc'[c].chat_history) <= loc'[c].limit
        /\ (pc[c] = "list_count" /\ pc'[c] = "idle") =>
              /\ resp'[c].status = 200
              /\ resp'[c].body.limit = loc[c].limit
              /\ resp'[c].body.offset = loc[c].offset
              /\ Len(resp'[c].body.chat_history) <= resp'[c].body.limit
      ]_vars

\* C18: within one ask-question request the ledger is written strictly
\* after the provider call has returned.  The step that receives the
\* request and the step in which the provider call returns write nothing;
\* a request answered 400, 401 or 404 ends in its first step, before the
\* provider is called, and writes nothing; the one step that writes is the
\* one after the provider call, and the entry it writes holds the text the
\* provider call returned, an answer or the fallback, never an empty or
\* other text.
C18_WriteFollowsTheProvider ==
    [][\A c \in Clients :
        /\ Sends(c, "ask") =>
              /\ chats' = chats
              /\ pc'[c] \in {"idle", "ask_provider"}
              /\ pc'[c] = "idle" <=> resp'[c].status \in {400, 401, 404}
        /\ (pc[c] = "ask_provider" /\ pc'[c] # "ask_provider") =>
              /\ chats' = chats
              /\ pc'[c] = "ask_commit"
              /\ loc[c].response = ""
              /\ loc'[c].response \in Answers \cup {Fallback}
        /\ pc'[c] = "ask_commit" => pc[c] \in {"ask_provider", "ask_commit"}
        /\ (pc[c] = "ask_commit" /\ pc'[c] # "ask_commit") =>
              /\ resp'[c].status = 200
              /\ chats' = Append(chats, chats'[Len(chats')])
              /\ chats'[Len(chats')].response = loc[c].response
              /\ loc[c].response \in Answers \cup {Fallback}
        /\ (req'[c].op = "ask" /\ resp'[c] # resp[c]
               /\ resp'[c].status \in {400, 401, 404}) =>
              /\ pc[c] = "idle"
              /\ chats' = chats
        /\ \A i \in 1..Len(chats') : chats'[i].response \in Answers \cup {Fallback}
      ]_vars

\* one request has been answered 200 and its entry is the only one, while
\* the provider call of the other client's request is still in flight
C18_Witness ==
    \E c1, c2 \in Clients :
        /\ c1 # c2
        /\ pc[c1] = "idle" /\ req[c1].op = "ask" /\ resp[c1].status = 200
        /\ pc[c2] = "ask_provider"
        /\ Len(chats) = 1
        /\ resp[c1].body.chat_id = 1

----------------------------------------------------------------------------
(* Properties of the lifetime of tokens (SpecTokens).                      *)

\* the tokens a client holds
Held(c) == {tok \in {wallet[c].access, wallet[c].refresh} : tok.kind # "none"}

\* no step other than the passing of time changes the gate's verdict on a
\* token that a client holds, and a login issues an access token that
\* expires no later than its refresh token
NoRevocation ==
    /\ \A c \in Clients : \A tok \in Held(c) :
          now' = now =>
              jwt_required(tok, tok.kind = "refresh", users', now')
                  = jwt_required(tok, tok.kind = "refresh", users, now)
    /\ \A c \in Clients :
          (Sends(c, "login") /\ resp'[c].status = 200) =>
              /\ resp'[c].body.access_token.exp = now + AccessLifetime
              /\ resp'[c].body.refresh_token.exp = now + RefreshLifetime
              /\ resp'[c].body.access_token.exp <= resp'[c].body.refresh_token.exp

\* C17, as amended: a correctly signed token of a stored user, issued at
\* time t with lifetime L and sent to an operation of its kind, is accepted
\* at every time before t+L and rejected with 401 'Token has expired' at
\* t+L and at every later time, whatever logins, refreshes and signups
\* happened in between; no operation revokes a token, and the access token
\* of a login expires no later than its refresh token.
C17_ValidUntilExpiry ==
    [][/\ \A c \in Clients, op \in {"me", "refresh"} :
            ( /\ Sends(c, op)
              /\ req'[c].token.kind = (IF op = "refresh" THEN "refresh" ELSE "access")
              /\ req'[c].token.sig = "ok"
              /\ StrToInt(req'[c].token.sub) \in 1..Len(users) ) =>
                IF now < req'[c].token.exp
                THEN resp'[c].status = 200
                ELSE Refused(c, "Token has expired")
       /\ NoRevocation
      ]_vars

\* the access token of the login at time 0 is refused as expired at the
\* second of its expiry, after the other client has signed up and logged in
C17_Witness ==
    /\ Len(users) = 2
    /\ \E c \in Others : wallet[c].access.kind = "access"
    /\ \E c \in Solo :
          /\ req[c].op = "me" /\ req[c].token = LoggedIn(1).access
          /\ now = req[c].token.exp
          /\ resp[c] = expired_token_callback

\* C17, as stated: the token is accepted at every time not past t+L and
\* rejected with the expired-token error at every time past t+L.
C17_ValidThroughExpiry ==
    [][/\ \A c \in Clients, op \in {"me", "refresh"} :
            ( /\ Sends(c, op)
              /\ req'[c].token.kind = (IF op = "refresh" THEN "refresh" ELSE "access")
              /\ req'[c].token.sig = "ok"
              /\ StrToInt(req'[c].token.sub) \in 1..Len(users) ) =>
                IF now <= req'[c].token.exp
                THEN resp'[c].status = 200
                ELSE Refused(c, "Token has expired")
       /\ NoRevocation
      ]_vars

----------------------------------------------------------------------------
(* Properties of the stored email (SpecEmail).                             *)

\* C21: signup normalizes the email before the uniqueness check and
\* before storing it: no two stored users have emails with the same
\* normalized form, and every stored email is its normalized form.
C21_StoredEmailIsNormalized ==
    /\ \A i, j \in 1..Len(users) :
          i # j => validate_email(users[i].email)[2] # validate_email(users[j].email)[2]
    /\ \A i \in 1..Len(users) :
          users[i].email = validate_email(users[i].email)[2]

----------------------------------------------------------------------------
(* Properties of the provider handle (SpecSingleton).                      *)

----------------------------------------------------------------------------
(* Properties of the list with respect to other users (SpecIsolation).     *)

\* the ledger of the run in which only user A has asked: A's rows of the
\* table in the order of their insertion, under the ids they get there
RECURSIVE LedgerOf(_, _)
LedgerOf(table, A) ==
    IF table = <<>> THEN <<>>
    ELSE LET rest == LedgerOf(SubSeq(table, 1, Len(table) - 1), A)
             last == table[Len(table)]
         IN  IF last.user_id = A
             THEN Append(rest, [last EXCEPT !.id = Len(rest) + 1])
             ELSE rest

\* the lists of entries that a list request of user A can be answered
\* with on the given table
PagesFor(table, A, limit, offset) ==
    {[i \in 1..Len(page) |-> chat_to_dict(table[page[i]])] :
        page \in {Page(order, limit, offset) :
                    order \in OrderedByTimestampDesc(table, ChatsOf(table, A))}}

\* the entries of a response without their ids
WithoutIds(entries) ==
    [i \in 1..Len(entries) |->
        [user_id |-> entries[i].user_id, question |-> entries[i].question,
         response |-> entries[i].response, timestamp |-> entries[i].timestamp]]

\* the entries that the page query of client c has selected in this step
Selected(c) ==
    [i \in 1..Len(loc'[c].chat_history) |->
        chat_to_dict(chats[loc'[c].chat_history[i]])]

\* every entry selected for and returned to user A is A's, and total is
\* the number of A's entries
OnlyOwnEntries(c) ==
    /\ (Sends(c, "list") /\ ValidToken(req'[c].token, "access")) =>
          \A i \in 1..Len(loc'[c].chat_history) :
              chats[loc'[c].chat_history[i]].user_id = StrToInt(req'[c].token.sub)
    /\ (pc[c] = "list_count" /\ pc'[c] = "idle") =>
          /\ resp'[c].body.total = Len(LedgerOf(chats, StrToInt(req[c].token.sub)))
          /\ Len(resp'[c].body.chat_history) = Len(loc[c].chat_history)
          /\ \A i \in 1..Len(loc[c].chat_history) :
                /\ resp'[c].body.chat_history[i]
                      = chat_to_dict(chats[loc[c].chat_history[i]])
                /\ resp'[c].body.chat_history[i].user_id
                      = StrToInt(req[c].token.sub)

\* C23, as amended: the asks of other users change nothing in the list
\* response for user A except the ids of A's entries.  The entries selected
\* for A are, id aside, a page that the same request can get in the run in
\* which only A has asked, in the same order; every entry returned to A has
\* user_id equal to A's id, and total counts only A's entries.
C23_ListIsIsolatedUpToIds ==
    [][\A c \in Clients :
        /\ (Sends(c, "list") /\ ValidToken(req'[c].token, "access")) =>
              LET A == StrToInt(req'[c].token.sub)
              IN  WithoutIds(Selected(c)) \in
                      {WithoutIds(entries) : entries \in
                          PagesFor(LedgerOf(chats, A), A,
                                   EffectiveLimit(req'[c].limit),
                                   EffectiveOffset(req'[c].offset))}
        /\ OnlyOwnEntries(c)
      ]_vars

\* user A has been returned its one entry, which carries id 2 because
\* another user's entry was written before it
C23_Witness ==
    \E c \in Clients :
        /\ pc[c] = "idle" /\ req[c].op = "list" /\ resp[c].status = 200
        /\ Len(chats) = 2
        /\ resp[c].body.total = 1
        /\ Len(resp[c].body.chat_history) = 1
        /\ resp[c].body.chat_history[1].id = 2
        /\ chats[1].user_id # StrToInt(req[c].token.sub)

\* C23, as stated: the list response for A, entries included as returned,
\* is identical to the one of the run in which only A has asked.
C23_ListIsIsolated ==
    [][\A c \in Clients :
        /\ (Sends(c, "list") /\ ValidToken(req'[c].token, "access")) =>
              LET A == StrToInt(req'[c].token.sub)
              IN  Selected(c) \in
                      PagesFor(LedgerOf(chats, A), A,
                               EffectiveLimit(req'[c].limit),
                               EffectiveOffset(req'[c].offset))
        /\ OnlyOwnEntries(c)
      ]_vars

====
